---- MODULE Spec2Model ----
(***************************************************************************)
(* Gemini 3D Chess: the App component (game state, AI turn effect, peer    *)
(* relay, mode switching), the camera effect of ChessBoard3D and the       *)
(* getBestMove service.                                                    *)
(*                                                                         *)
(* The chess library is an external collaborator.  It is represented by a  *)
(* pawn game on a board of two files and NumRanks ranks with the interface *)
(* the App uses: fen(), turn(), moves(), move(), undo(), history(),        *)
(* isGameOver(), get().  A pawn pushes one square forward onto an empty    *)
(* square or captures one square diagonally forward; the game is over when *)
(* a pawn stands on the far rank or the side to move has no move.          *)
(***************************************************************************)
EXTENDS Integers, Sequences, FiniteSets, TLC

\* ------------------------------------------------------------------ bounds
NumRanks == 3
MaxConns == 2
MaxTextLen == 3
MaxEvents == 6
MaxWire == 1

\* ----------------------------------------------------- the chess library
FileChars == <<"a", "b">>
RankChars == <<"1", "2", "3", "4", "5">>
NumFiles == Len(FileChars)
NumSquares == NumFiles * NumRanks
Squares == 1..NumSquares
FileOf(s) == ((s - 1) % NumFiles) + 1
RankOf(s) == ((s - 1) \div NumFiles) + 1

Other(c) == IF c = "w" THEN "b" ELSE "w"

InitBoard == [s \in Squares |-> IF RankOf(s) = 1 THEN "w"
                                ELSE IF RankOf(s) = NumRanks THEN "b" ELSE "-"]

\* new Chess(): the initial position, White to move, empty history
NewChess == [board |-> InitBoard, turn |-> "w", history |-> <<>>]

\* game.fen(): the position without the move history
Fen(g) == [board |-> g.board, turn |-> g.turn]

\* new Chess(fen): the position of the FEN, empty history
ChessFromFen(f) == [board |-> f.board, turn |-> f.turn, history |-> <<>>]

InitFen == Fen(NewChess)

Turn(g) == g.turn

\* game.get(square)
Get(g, s) == g.board[s]

Forward(c) == IF c = "w" THEN 1 ELSE 0 - 1

Reached(g) == \E s \in Squares :
                 \/ g.board[s] = "w" /\ RankOf(s) = NumRanks
                 \/ g.board[s] = "b" /\ RankOf(s) = 1

IsLegal(g, from, to) ==
    /\ from \in Squares /\ to \in Squares
    /\ g.board[from] = g.turn
    /\ RankOf(to) = RankOf(from) + Forward(g.turn)
    /\ \/ FileOf(to) = FileOf(from) /\ g.board[to] = "-"
       \/ /\ FileOf(to) - FileOf(from) \in {1, 0 - 1}
          /\ g.board[to] = Other(g.turn)
    /\ ~Reached(g)

\* from/to pairs in the library's generation order
AllPairs == [i \in 1..(NumSquares * NumSquares) |->
               [from |-> ((i - 1) \div NumSquares) + 1,
                to |-> ((i - 1) % NumSquares) + 1]]

\* the pairs one rank and at most one file apart, the only ones a pawn can move
IsStep(m) == /\ RankOf(m.to) - RankOf(m.from) \in {1, 0 - 1}
             /\ FileOf(m.to) - FileOf(m.from) \in {0 - 1, 0, 1}

StepPairs == SelectSeq(AllPairs, IsStep)

IsLegalPair(g, m) == IsLegal(g, m.from, m.to)

\* game.moves({verbose: true})
LegalMoves(g) == SelectSeq(StepPairs, LAMBDA m : IsLegalPair(g, m))

\* game.isGameOver()
IsGameOver(g) == ~\E i \in 1..Len(StepPairs) : IsLegalPair(g, StepPairs[i])

\* standard algebraic notation of a pawn move
San(m) == IF FileOf(m.from) = FileOf(m.to)
          THEN <<FileChars[FileOf(m.to)], RankChars[RankOf(m.to)]>>
          ELSE <<FileChars[FileOf(m.from)], "x",
                 FileChars[FileOf(m.to)], RankChars[RankOf(m.to)]>>

\* the from-to form the library's permissive parser also accepts
Uci(m) == <<FileChars[FileOf(m.from)], RankChars[RankOf(m.from)],
            FileChars[FileOf(m.to)], RankChars[RankOf(m.to)]>>

\* game.moves(): the SAN strings of the legal moves
Moves(g) == LET lm == LegalMoves(g) IN [i \in 1..Len(lm) |-> San(lm[i])]

\* game.history().length
HistoryLen(g) == Len(g.history)

\* the position after a move the library accepted
ApplyMove(g, from, to) ==
    [board |-> [s \in Squares |-> IF s = from THEN "-"
                                  ELSE IF s = to THEN g.board[from]
                                  ELSE g.board[s]],
     turn |-> Other(g.turn),
     history |-> Append(g.history, Fen(g))]

\* a move applied without asking the library
TryMoveForced(g, from, to) ==
    IF from \in Squares /\ to \in Squares THEN ApplyMove(g, from, to) ELSE g

\* g.move({from, to, promotion}) inside try/catch: a rejected move throws and
\* leaves the object as it was
TryMove(g, from, to) == IF IsLegal(g, from, to) THEN ApplyMove(g, from, to) ELSE g

\* the legal moves a move string denotes (SAN or from-to form)
ParseMove(g, str) == LET lm == LegalMoves(g)
                     IN {i \in 1..Len(lm) : San(lm[i]) = str \/ Uci(lm[i]) = str}

\* g.move(string) accepts the string
AcceptsSan(g, str) == ParseMove(g, str) # {}

ApplySan(g, str) ==
    LET lm == LegalMoves(g)
        i == CHOOSE j \in 1..Len(lm) : San(lm[j]) = str \/ Uci(lm[j]) = str
    IN ApplyMove(g, lm[i].from, lm[i].to)

\* g.undo(): takes back the last move of the object's own history; with an
\* empty history it returns null and changes nothing
Undo(g) == IF g.history = <<>> THEN g
           ELSE [board |-> g.history[Len(g.history)].board,
                 turn |-> g.history[Len(g.history)].turn,
                 history |-> SubSeq(g.history, 1, Len(g.history) - 1)]

\* ------------------------------------------------- services/geminiService
IsSpace(ch) == ch = " "

RECURSIVE TrimLeft(_)
TrimLeft(s) == IF s = <<>> THEN <<>>
               ELSE IF IsSpace(Head(s)) THEN TrimLeft(Tail(s)) ELSE s

RECURSIVE TrimRight(_)
TrimRight(s) == IF s = <<>> THEN <<>>
                ELSE IF IsSpace(s[Len(s)]) THEN TrimRight(SubSeq(s, 1, Len(s) - 1))
                ELSE s

\* String.prototype.trim
Trim(s) == TrimRight(TrimLeft(s))

\* s.split(/\s+/)[0]
RECURSIVE FirstToken(_)
FirstToken(s) == IF s = <<>> THEN <<>>
                 ELSE IF IsSpace(Head(s)) THEN <<>>
                 ELSE <<Head(s)>> \o FirstToken(Tail(s))

\* a replace that removes every '.', as replace(/\./g, '') would
RECURSIVE RemoveAllDots(_)
RemoveAllDots(s) == IF s = <<>> THEN <<>>
                    ELSE IF Head(s) = "." THEN RemoveAllDots(Tail(s))
                    ELSE <<Head(s)>> \o RemoveAllDots(Tail(s))

\* s.replace('.', ''): removes the first occurrence only
RECURSIVE RemoveFirstDot(_)
RemoveFirstDot(s) == IF s = <<>> THEN <<>>
                     ELSE IF Head(s) = "." THEN Tail(s)
                     ELSE <<Head(s)>> \o RemoveFirstDot(Tail(s))

Undefined == <<"undefined">>

\* validMoves[Math.floor(Math.random() * validMoves.length)], r the random index
RandomMove(validMoves, r) == IF r \in 1..Len(validMoves) THEN validMoves[r] ELSE Undefined

RandomIndexes(validMoves) == IF validMoves = <<>> THEN {0} ELSE 1..Len(validMoves)

\* getBestMove: resp.throws is the model call failing, resp.text its text
GetBestMove(resp, validMoves, r) ==
    IF resp.throws \/ Trim(resp.text) = <<>>
    THEN RandomMove(validMoves, r)
    ELSE RemoveFirstDot(FirstToken(Trim(resp.text)))

\* ------------------------------------------------------------ App state
VARIABLES
    game,          \* the Chess object of useState(new Chess())
    fen,           \* useState(game.fen())
    aiThinking,    \* useState(false)
    playerColor,   \* useState('w')
    mode,          \* useState('AI')
    peerId,        \* useState(''): set by the peer's 'open' event
    connStatus,    \* 'idle' | 'connecting' | 'connected'
    peerRef,       \* peerRef.current is set
    connRef,       \* connRef.current: null, or the state of the connection it holds
    conns,         \* the live connections connRef.current no longer holds, by state
    aiReq,         \* the AI turn effect's request whose isMounted is still true
    aiStart,       \* fen, mode and playerColor of the render that started aiReq
    askReq,        \* the Ask-AI request whose invokingGame is still the current game
    cameraZ,       \* camera.position.z of ChessBoard3D
    role,          \* which event made the current session: host accepted, guest opened
    trail,         \* the positions before the last moves made since the last reset
    lastOp,        \* the handler that ran last, its outcome and the message it sent
    events,        \* the user and peer events counted so far
    wire,          \* per app, the messages sent to it and not yet delivered
    selectedSquare, \* useState<Square | null>(null) of ChessBoard3D: 0 is null
    gbm            \* one call of getBestMove: inputs, position and result

appVars == <<game, fen, aiThinking, playerColor, mode, aiReq, aiStart, askReq,
             cameraZ>>
netVars == <<peerId, connStatus, peerRef, connRef, conns, role>>
vars == <<game, fen, aiThinking, playerColor, mode, peerId, connStatus,
          peerRef, connRef, conns, aiReq, aiStart, askReq, cameraZ,
          role, trail, lastOp, events, gbm, wire, selectedSquare>>
sideVars == <<wire, selectedSquare>>

Apps == DOMAIN mode
Modes == {"AI", "LOCAL", "ONLINE"}
\* a connection is pending until its 'open' event, open while its 'data' and
\* 'close' listeners can fire, closed afterwards
ConnStates == {"pending", "open", "closed"}
NoConns == [pending |-> 0, open |-> 0]
\* the connection an event is on: the one connRef.current holds or another
ConnIds == {"current", "other"}
NoMsg == <<>>
MoveMsg(from, to) == [type |-> "MOVE", from |-> from, to |-> to]
ResetMsg == [type |-> "RESET", from |-> 0, to |-> 0]
SyncMsg == [type |-> "SYNC", from |-> 0, to |-> 0]
Messages == {MoveMsg(f, t) : f \in Squares, t \in Squares} \cup {ResetMsg, SyncMsg}

Op(p, op, res, sent) == [app |-> p, op |-> op, res |-> res, sent |-> sent]

\* a camera that follows playerColor in every mode
CameraTargetZAnyMode(m, c) == IF c = "b" THEN 15 ELSE 0 - 15

\* ChessBoard3D camera effect: the z the camera is set to
CameraTargetZ(m, c) == IF m = "ONLINE" /\ c = "b" THEN 15 ELSE 0 - 15

\* the condition of the AI turn effect
AiShouldMove(m, g, c) == m = "AI" /\ Turn(g) # c /\ ~IsGameOver(g)

\* safeGameMutate: the object `update`, a copy made from the FEN (without the
\* move history), to which the modification is applied
SafeGameUpdate(g) == ChessFromFen(Fen(g))

\* the positions before the last two moves
Remember(tr, f) == IF Len(tr) < 2 THEN Append(tr, f) ELSE <<tr[2], f>>

TrailAfter(tr, f, g2) == IF Fen(g2) = f THEN tr ELSE Remember(tr, f)

RoleAfter(st2, r) == IF st2 = "connected" THEN r ELSE "none"

\* no AI request is running
NoStart == <<>>

\* an AI turn effect whose dependency array lacks playerColor
AiDepsChangedNoColour(p, g2, m2, c2) == <<Fen(g2), m2>> # <<fen[p], mode[p]>>

\* the dependency array of the AI turn effect: [fen, mode, playerColor]
AiDepsChanged(p, g2, m2, c2) ==
    <<Fen(g2), m2, c2>> # <<fen[p], mode[p], playerColor[p]>>

\* the dependency array of the camera effect: [mode, playerColor]
CameraDepsChanged(p, m2, c2) == <<m2, c2>> # <<mode[p], playerColor[p]>>

\* One render after a handler: the new state values, then the effects whose
\* dependencies changed (AI turn effect, gameRef effect on [game], camera
\* effect).
Render(p, g2, newObj, m2, c2, think) ==
    \E depsChanged \in {AiDepsChanged(p, g2, m2, c2)} :
    \E start \in {depsChanged /\ AiShouldMove(m2, g2, c2)} :
       /\ game' = [game EXCEPT ![p] = g2]
       /\ fen' = [fen EXCEPT ![p] = Fen(g2)]
       /\ mode' = [mode EXCEPT ![p] = m2]
       /\ playerColor' = [playerColor EXCEPT ![p] = c2]
       /\ aiThinking' = [aiThinking EXCEPT ![p] = IF start THEN TRUE ELSE think]
       /\ aiReq' = [aiReq EXCEPT ![p] = IF depsChanged
                                        THEN (IF start THEN "delay" ELSE "none")
                                        ELSE aiReq[p]]
       /\ aiStart' = [aiStart EXCEPT ![p] = IF depsChanged
                                            THEN (IF start THEN <<Fen(g2), m2, c2>>
                                                  ELSE NoStart)
                                            ELSE aiStart[p]]
       /\ askReq' = [askReq EXCEPT ![p] = IF newObj THEN "none" ELSE askReq[p]]
       /\ cameraZ' = [cameraZ EXCEPT ![p] =
                        IF CameraDepsChanged(p, m2, c2)
                        THEN CameraTargetZ(m2, c2) ELSE cameraZ[p]]

Net(p, st2, ref2, cs2, r2) ==
    /\ connStatus' = [connStatus EXCEPT ![p] = st2]
    /\ connRef' = [connRef EXCEPT ![p] = ref2]
    /\ conns' = [conns EXCEPT ![p] = cs2]
    /\ role' = [role EXCEPT ![p] = RoleAfter(st2, r2)]

Ghost(p, tr2, op) ==
    /\ trail' = [trail EXCEPT ![p] = tr2]
    /\ lastOp' = op

\* connRef.current.send(msg): the message handed to the connection
SendOn(p, msg) == IF connRef[p] # "null" THEN <<msg>> ELSE NoMsg

\* a cleanup that leaves the current connection as it is
LeaveCurrent(p) == connRef[p]

\* connRef.current?.close(): the state of the connection afterwards
CloseCurrent(p) == IF connRef[p] = "null" THEN "null" ELSE "closed"

\* the connections that can still raise an event
Live(p) == (IF connRef[p] \in {"pending", "open"} THEN 1 ELSE 0)
           + conns[p].pending + conns[p].open

\* connRef.current = conn: the connection held before stays alive
Replaced(p) == IF connRef[p] \in {"pending", "open"}
               THEN [conns[p] EXCEPT ![connRef[p]] = @ + 1]
               ELSE conns[p]

\* the state of connection c, and the connections after c changed to st2
StateOf(p, c, st) == IF c = "current" THEN connRef[p] = st ELSE conns[p][st] > 0

RefAfter(p, c, st2) == IF c = "current" THEN st2 ELSE connRef[p]

ConnsAfter(p, c, st, st2) ==
    IF c = "current" THEN conns[p]
    ELSE IF st2 = "closed" THEN [conns[p] EXCEPT ![st] = @ - 1]
    ELSE [conns[p] EXCEPT ![st] = @ - 1, ![st2] = @ + 1]

\* the user and peer events are counted when a budget of them is set
NotCounted == 0 - 1

Counted == IF events = NotCounted THEN UNCHANGED events
           ELSE events < MaxEvents /\ events' = events + 1

\* the apps at the other end of p's connection
Peers(p) == Apps \ {p}

\* a message handed to an open connection travels to the peer; the wire holds
\* at most MaxWire undelivered messages
Transmit(p, sent) ==
    IF sent = NoMsg \/ connRef[p] # "open" \/ Peers(p) = {}
    THEN UNCHANGED wire
    ELSE /\ \A q \in Peers(p) : Len(wire[q]) < MaxWire
         /\ wire' = [q \in Apps |-> IF q = p THEN wire[q] ELSE wire[q] \o sent]

\* ---------------------------------------------------------- App handlers
\* onMove without the aiThinking check
OnMoveRejectsNotBusy(p, from, to) ==
    \/ IsGameOver(game[p])
    \/ mode[p] = "AI" /\ Turn(game[p]) # playerColor[p]
    \/ mode[p] = "ONLINE" /\ Turn(game[p]) # playerColor[p]
    \/ ~IsLegal(ChessFromFen(Fen(game[p])), from, to)

\* onMove without the turn check of ONLINE mode
OnMoveRejectsAiOnly(p, from, to) ==
    \/ aiThinking[p] \/ IsGameOver(game[p])
    \/ mode[p] = "AI" /\ Turn(game[p]) # playerColor[p]
    \/ ~IsLegal(ChessFromFen(Fen(game[p])), from, to)

\* onMove: the early returns
OnMoveRejects(p, from, to) ==
    \/ aiThinking[p] \/ IsGameOver(game[p])
    \/ mode[p] = "AI" /\ Turn(game[p]) # playerColor[p]
    \/ mode[p] = "ONLINE" /\ Turn(game[p]) # playerColor[p]
    \/ ~IsLegal(ChessFromFen(Fen(game[p])), from, to)

\* an onMove that relays the move in every mode
OnMoveSendsAnyMode(p, from, to) == SendOn(p, MoveMsg(from, to))

\* onMove step 5: the MOVE message of an accepted move
OnMoveSends(p, from, to) ==
    IF mode[p] = "ONLINE" THEN SendOn(p, MoveMsg(from, to)) ELSE NoMsg

OnMove(p, from, to) ==
    IF OnMoveRejects(p, from, to)
    THEN /\ lastOp' = Op(p, "onMove", "rejected", NoMsg)
         /\ UNCHANGED <<appVars, netVars, trail, gbm, wire>>
         /\ Counted
    ELSE \E g2 \in {TryMove(SafeGameUpdate(game[p]), from, to)} :
         /\ Render(p, g2, TRUE, mode[p], playerColor[p], aiThinking[p])
         /\ Ghost(p, TrailAfter(trail[p], fen[p], g2),
                  Op(p, "onMove", "accepted", OnMoveSends(p, from, to)))
         /\ Transmit(p, OnMoveSends(p, from, to))
         /\ UNCHANGED <<netVars, gbm>>
         /\ Counted

\* a resetGame that ignores isOnlineTrigger
ResetSendsAlways(p, isOnlineTrigger) ==
    IF mode[p] = "ONLINE" THEN <<ResetMsg>> ELSE NoMsg

\* resetGame: the RESET message it relays
ResetSends(p, isOnlineTrigger) ==
    IF mode[p] = "ONLINE" /\ ~isOnlineTrigger THEN SendOn(p, ResetMsg) ELSE NoMsg

\* the Restart button: resetGame()
ResetGame(p) ==
    /\ Render(p, NewChess, TRUE, mode[p], playerColor[p], aiThinking[p])
    /\ Ghost(p, <<>>, Op(p, "reset", "user", ResetSends(p, FALSE)))
    /\ Transmit(p, ResetSends(p, FALSE))
    /\ UNCHANGED <<netVars, gbm, selectedSquare>>
    /\ Counted

\* the "Playing as" button of the AI settings: flip the colour, resetGame()
ToggleColor(p) ==
    /\ mode[p] = "AI"
    /\ Render(p, NewChess, TRUE, mode[p], Other(playerColor[p]), aiThinking[p])
    /\ Ghost(p, <<>>, Op(p, "toggle", "", ResetSends(p, FALSE)))
    /\ UNCHANGED <<netVars, gbm, sideVars>>
    /\ Counted

\* the modification undoMove queues: one undo, a second one in AI mode
UndoModify(g, m) == IF m = "AI" THEN Undo(Undo(g)) ELSE Undo(g)

\* the Undo button is disabled with an empty history or while aiThinking
UndoEnabled(p) == HistoryLen(game[p]) > 0 /\ ~aiThinking[p]

UndoMove(p) ==
    IF mode[p] = "ONLINE"
    THEN /\ lastOp' = Op(p, "undo", "online", NoMsg)
         /\ UNCHANGED <<appVars, netVars, trail, gbm, sideVars>>
         /\ Counted
    ELSE UndoEnabled(p) /\ \E g2 \in {UndoModify(SafeGameUpdate(game[p]), mode[p])} :
         /\ Render(p, g2, TRUE, mode[p], playerColor[p], aiThinking[p])
         /\ Ghost(p, trail[p], Op(p, "undo", "done", NoMsg))
         /\ UNCHANGED <<netVars, gbm, sideVars>>
         /\ Counted

\* switchMode asks for confirmation when a game is in progress
NeedsConfirm(p) == HistoryLen(game[p]) > 0 /\ ~IsGameOver(game[p])

SwitchMode(p, target, confirm) ==
    IF mode[p] = target
    THEN UNCHANGED vars
    ELSE IF NeedsConfirm(p) /\ ~confirm
    THEN UNCHANGED vars
    ELSE /\ Render(p, NewChess, TRUE, target, "w", FALSE)
         /\ Net(p, IF mode[p] = "ONLINE" THEN "idle" ELSE connStatus[p],
                IF mode[p] = "ONLINE" THEN CloseCurrent(p) ELSE connRef[p],
                conns[p], role[p])
         /\ peerRef' = [peerRef EXCEPT ![p] = peerRef[p] \/ target = "ONLINE"]
         /\ Ghost(p, <<>>, Op(p, "switchMode", mode[p], NoMsg))
         /\ UNCHANGED <<peerId, gbm, sideVars>>
         /\ Counted

\* askAiForHelp up to its await
AskAiForHelp(p) ==
    /\ ~(aiThinking[p] \/ IsGameOver(game[p]))
    /\ aiThinking' = [aiThinking EXCEPT ![p] = TRUE]
    /\ askReq' = [askReq EXCEPT ![p] = "live"]
    /\ lastOp' = Op(p, "ask", "", NoMsg)
    /\ UNCHANGED <<game, fen, playerColor, mode, aiReq, aiStart, cameraZ, netVars,
                   trail, gbm, sideVars>>
    /\ Counted

\* askAiForHelp after its await, gameRef.current still the invoking game
AskReturn(p) ==
    /\ askReq[p] = "live"
    /\ aiThinking' = [aiThinking EXCEPT ![p] = FALSE]
    /\ askReq' = [askReq EXCEPT ![p] = "none"]
    /\ lastOp' = Op(p, "askReturn", "", NoMsg)
    /\ UNCHANGED <<game, fen, playerColor, mode, aiReq, aiStart, cameraZ, netVars,
                   trail, gbm, events, sideVars>>

\* makeAiMove: the 500 ms delay is over and isMounted is still true
AiDelayDone(p) ==
    /\ aiReq[p] = "delay"
    /\ aiReq' = [aiReq EXCEPT ![p] = "call"]
    /\ lastOp' = Op(p, "aiDelay", "", NoMsg)
    /\ UNCHANGED <<game, fen, aiThinking, playerColor, mode, aiStart, askReq, cameraZ,
                   netVars, trail, gbm, events, sideVars>>

\* a mutation without the random-move fallback
AiModifyNoFallback(g, bestMove, moves, r) ==
    IF AcceptsSan(g, bestMove) THEN ApplySan(g, bestMove) ELSE g

\* the mutation makeAiMove queues: the model's move, else a random one of moves
AiModify(g, bestMove, moves, r) ==
    IF AcceptsSan(g, bestMove) THEN ApplySan(g, bestMove)
    ELSE IF RandomMove(moves, r) # Undefined /\ AcceptsSan(g, RandomMove(moves, r))
    THEN ApplySan(g, RandomMove(moves, r))
    ELSE g

\* the texts the model is taken to answer with in a position
ResponseTexts(g) ==
    LET lm == LegalMoves(g)
    IN {<<" ">>, <<"1", ".", " ", "a", "1">>}
       \cup {<<" ">> \o San(lm[i]) \o <<".", " ", "x">> : i \in 1..Len(lm)}
       \cup {Uci(lm[i]) : i \in 1..Len(lm)}

Responses(g) == {[throws |-> TRUE, text |-> <<>>]}
                \cup {[throws |-> FALSE, text |-> t] : t \in ResponseTexts(g)}

\* makeAiMove: getBestMove resolved and isMounted is still true
AiReturn(p, resp, r) ==
    /\ aiReq[p] = "call"
    /\ \E moves \in {Moves(game[p])} :
       \E bestMove \in {GetBestMove(resp, moves, r)} :
       \E g2 \in {AiModify(SafeGameUpdate(game[p]), bestMove, moves, r)} :
          /\ Render(p, g2, TRUE, mode[p], playerColor[p], FALSE)
          /\ Ghost(p, TrailAfter(trail[p], fen[p], g2),
                   Op(p, "aiReturn",
                      IF AcceptsSan(game[p], bestMove) THEN "model" ELSE "fallback", NoMsg))
    /\ UNCHANGED <<netVars, gbm, events, sideVars>>

\* ------------------------------------------------------------ peer relay
\* peer.on('open')
PeerOpen(p) ==
    /\ peerRef[p] /\ peerId[p] = ""
    /\ peerId' = [peerId EXCEPT ![p] = "id"]
    /\ Net(p, "idle", connRef[p], conns[p], role[p])
    /\ lastOp' = Op(p, "peerOpen", "", NoMsg)
    /\ UNCHANGED <<appVars, peerRef, trail, gbm, sideVars>>
    /\ Counted

\* peer.on('connection'): a remote peer connected to this one
PeerConnection(p) ==
    /\ peerId[p] # "" /\ Live(p) < MaxConns
    /\ Render(p, NewChess, TRUE, mode[p], "w", aiThinking[p])
    /\ Net(p, "connected", "open", Replaced(p), "host")
    /\ Ghost(p, <<>>, Op(p, "connection", "", ResetSends(p, TRUE)))
    /\ UNCHANGED <<peerId, peerRef, gbm, sideVars>>
    /\ Counted

\* joinGame, from the Play button with a friend's id entered (the button is
\* shown while not connected and disabled while connecting)
JoinGame(p) ==
    /\ mode[p] = "ONLINE" /\ connStatus[p] = "idle"
    /\ peerRef[p] /\ Live(p) < MaxConns
    /\ Net(p, "connecting", "pending", Replaced(p), role[p])
    /\ lastOp' = Op(p, "join", "", NoMsg)
    /\ UNCHANGED <<appVars, peerId, peerRef, trail, gbm, sideVars>>
    /\ Counted

\* conn.on('open') of joinGame
ConnOpen(p, c) ==
    /\ StateOf(p, c, "pending") /\ peerId[p] # ""
    /\ Render(p, game[p], FALSE, mode[p], "b", aiThinking[p])
    /\ Net(p, "connected", RefAfter(p, c, "open"),
           ConnsAfter(p, c, "pending", "open"), "guest")
    /\ Ghost(p, trail[p], Op(p, "connOpen", "", NoMsg))
    /\ UNCHANGED <<peerId, peerRef, gbm, sideVars>>
    /\ Counted

\* conn.on('data'): the branch taken for a message
DataBranch(msg) == IF msg.type = "MOVE" THEN "MOVE"
                   ELSE IF msg.type = "RESET" THEN "RESET" ELSE "none"

ConnData(p, c, msg) ==
    /\ StateOf(p, c, "open")
    /\ \E br \in {DataBranch(msg)} :
       \E g2 \in {IF br = "MOVE"
                   THEN TryMove(SafeGameUpdate(game[p]), msg.from, msg.to)
                   ELSE IF br = "RESET" THEN NewChess ELSE game[p]} :
          /\ Render(p, g2, br # "none", mode[p], playerColor[p], aiThinking[p])
          /\ Ghost(p, IF br = "RESET" THEN <<>> ELSE TrailAfter(trail[p], fen[p], g2),
                   Op(p, "data", br, NoMsg))
    /\ UNCHANGED <<netVars, gbm, selectedSquare>>
    /\ Counted

\* a close handler that also resets the board
ConnCloseResets(p, c) ==
    /\ StateOf(p, c, "open")
    /\ Render(p, NewChess, TRUE, mode[p], "w", aiThinking[p])
    /\ Net(p, "idle", RefAfter(p, c, "closed"),
           ConnsAfter(p, c, "open", "closed"), role[p])
    /\ Ghost(p, <<>>, Op(p, "close", "", NoMsg))
    /\ UNCHANGED <<peerId, peerRef, gbm, sideVars>>
    /\ Counted

\* conn.on('close'): the remote side closed the connection
ConnClose(p, c) ==
    /\ StateOf(p, c, "open")
    /\ Render(p, game[p], FALSE, mode[p], "w", aiThinking[p])
    /\ Net(p, "idle", RefAfter(p, c, "closed"),
           ConnsAfter(p, c, "open", "closed"), role[p])
    /\ Ghost(p, trail[p], Op(p, "close", "", NoMsg))
    /\ UNCHANGED <<peerId, peerRef, gbm, sideVars>>
    /\ Counted

\* the X button of the "Connected to Opponent" panel
Disconnect(p) ==
    /\ mode[p] = "ONLINE" /\ connStatus[p] = "connected"
    /\ Render(p, game[p], FALSE, mode[p], "w", aiThinking[p])
    /\ Net(p, "idle", CloseCurrent(p), conns[p], role[p])
    /\ Ghost(p, trail[p], Op(p, "disconnect", "", NoMsg))
    /\ UNCHANGED <<peerId, peerRef, gbm, sideVars>>
    /\ Counted

\* ------------------------------------------------------------ ChessBoard3D
\* a possibleMoves that lists every other square
PossibleMovesAnySquare(g, sel) == Squares \ {sel}

\* possibleMoves: game.moves({square: selectedSquare, verbose: true}).map(m => m.to)
PossibleMoves(g, sel) ==
    {LegalMoves(g)[i].to : i \in {j \in 1..Len(LegalMoves(g)) : LegalMoves(g)[j].from = sel}}

\* handleSquareClick
HandleSquareClick(p, sq) ==
    IF selectedSquare[p] = sq
    THEN /\ selectedSquare' = [selectedSquare EXCEPT ![p] = 0]
         /\ lastOp' = Op(p, "click", "deselect", NoMsg)
         /\ UNCHANGED <<appVars, netVars, trail, gbm, wire>>
         /\ Counted
    ELSE IF selectedSquare[p] # 0 /\ sq \in PossibleMoves(game[p], selectedSquare[p])
    THEN /\ OnMove(p, selectedSquare[p], sq)
         /\ selectedSquare' = [selectedSquare EXCEPT ![p] = 0]
    ELSE /\ selectedSquare' = [selectedSquare EXCEPT ![p] =
                                 IF Get(game[p], sq) = Turn(game[p]) THEN sq ELSE 0]
         /\ lastOp' = Op(p, "click", "select", NoMsg)
         /\ UNCHANGED <<appVars, netVars, trail, gbm, wire>>
         /\ Counted

\* ------------------------------------------------------- specifications
\* the from/to pairs tried in a position: every legal move, every move that
\* would be legal for the other side, and a pair that is never a move
OffTurn(g) == [board |-> g.board, turn |-> Other(g.turn), history |-> <<>>]

MoveInputs(g) ==
    {<<StepPairs[i].from, StepPairs[i].to>> : i \in
        {j \in 1..Len(StepPairs) : \/ IsLegalPair(g, StepPairs[j])
                                    \/ IsLegalPair(OffTurn(g), StepPairs[j])}}
    \cup {<<1, 1>>}

MessageInputs(g) == {MoveMsg(m[1], m[2]) : m \in MoveInputs(g)} \cup {ResetMsg, SyncMsg}

OneApp == {1}
GbmIdle == [pc |-> "idle"]

AppInit ==
    /\ game = [p \in OneApp |-> NewChess]
    /\ fen = [p \in OneApp |-> InitFen]
    /\ aiThinking = [p \in OneApp |-> FALSE]
    /\ playerColor = [p \in OneApp |-> "w"]
    /\ mode = [p \in OneApp |-> "AI"]
    /\ peerId = [p \in OneApp |-> ""]
    /\ connStatus = [p \in OneApp |-> "idle"]
    /\ peerRef = [p \in OneApp |-> FALSE]
    /\ connRef = [p \in OneApp |-> "null"]
    /\ conns = [p \in OneApp |-> NoConns]
    /\ aiReq = [p \in OneApp |-> "none"]
    /\ aiStart = [p \in OneApp |-> NoStart]
    /\ askReq = [p \in OneApp |-> "none"]
    /\ cameraZ = [p \in OneApp |-> CameraTargetZ("AI", "w")]
    /\ role = [p \in OneApp |-> "none"]
    /\ trail = [p \in OneApp |-> <<>>]
    /\ lastOp = Op(0, "init", "", NoMsg)
    /\ wire = [p \in OneApp |-> <<>>]
    /\ selectedSquare = [p \in OneApp |-> 0]

Init == AppInit /\ gbm = GbmIdle /\ events = NotCounted

\* the buttons of the HUD and the control bar
ButtonNext ==
    \E p \in OneApp :
        \/ ResetGame(p)
        \/ ToggleColor(p)
        \/ UndoMove(p)
        \/ \E target \in Modes :
             \E confirm \in (IF NeedsConfirm(p) THEN BOOLEAN ELSE {TRUE}) :
               SwitchMode(p, target, confirm)
        \/ AskAiForHelp(p)

\* what the user does
UserNext ==
    \/ \E p \in OneApp :
        \/ \E m \in MoveInputs(game[p]) :
             OnMove(p, m[1], m[2]) /\ UNCHANGED selectedSquare
        \/ JoinGame(p)
        \/ Disconnect(p)
    \/ ButtonNext

\* what the peer library reports
PeerNext ==
    \E p \in OneApp :
        \/ PeerOpen(p)
        \/ PeerConnection(p)
        \/ \E c \in ConnIds : ConnOpen(p, c)
        \/ \E c \in ConnIds, msg \in MessageInputs(game[p]) :
             ConnData(p, c, msg) /\ UNCHANGED wire
        \/ \E c \in ConnIds : ConnClose(p, c)

\* the pending requests completing
AsyncNext ==
    \E p \in OneApp :
        \/ AiDelayDone(p)
        \/ aiReq[p] = "call" /\ \E resp \in Responses(game[p]) :
             \E r \in RandomIndexes(Moves(game[p])) : AiReturn(p, resp, r)
        \/ AskReturn(p)

Next == UserNext \/ PeerNext \/ AsyncNext

Spec == Init /\ [][Next]_vars

TypeOK ==
    /\ \A p \in Apps :
        /\ mode[p] \in Modes
        /\ playerColor[p] \in {"w", "b"}
        /\ connStatus[p] \in {"idle", "connecting", "connected"}
        /\ fen[p] = Fen(game[p])
        /\ aiReq[p] \in {"none", "delay", "call"}
        /\ connRef[p] \in ConnStates \cup {"null"}
        /\ Live(p) <= MaxConns
        /\ selectedSquare[p] \in Squares \cup {0}
        /\ Len(wire[p]) <= MaxWire

\* ---------------------------------------------- AI turn, left undisturbed
\* no further user or peer event occurs once MaxEvents of them are counted
Quiet == events = MaxEvents

\* from here on no user or peer event occurs
GoQuiet ==
    /\ events # NotCounted /\ events < MaxEvents
    /\ events' = MaxEvents
    /\ UNCHANGED <<appVars, netVars, trail, lastOp, gbm, sideVars>>

\* at most MaxEvents user and peer events, then the pending requests alone
InitLive == AppInit /\ gbm = GbmIdle /\ events = 0

NextLive == Next \/ GoQuiet

\* the timer of makeAiMove fires and the model call returns
AiProgress ==
    /\ \E p \in Apps :
        \/ AiDelayDone(p)
        \/ aiReq[p] = "call" /\ \E resp \in Responses(game[p]) :
             \E r \in RandomIndexes(Moves(game[p])) : AiReturn(p, resp, r)

SpecLive == InitLive /\ [][NextLive]_vars /\ WF_vars(AiProgress)

\* ------------------------------------------------- getBestMove on its own
GbmAlphabet == {" ", ".", "a", "2"}

Texts == UNION {[1..n -> GbmAlphabet] : n \in 0..MaxTextLen}

ValidMoveLists == {<<>>, <<<<"a", "2">>>>, <<<<"a", "2">>, <<"b", "x", "a", "2">>>>}

GbmInputs == {[throws |-> TRUE, text |-> <<>>]}
             \cup {[throws |-> FALSE, text |-> t] : t \in Texts}

InitGbm ==
    /\ AppInit /\ events = NotCounted
    /\ gbm \in {[pc |-> "start", resp |-> x, validMoves |-> v, result |-> <<>>] :
                  x \in GbmInputs, v \in ValidMoveLists}

GbmCall ==
    /\ gbm.pc = "start"
    /\ \E r \in RandomIndexes(gbm.validMoves) :
         gbm' = [gbm EXCEPT !.pc = "done",
                            !.result = GetBestMove(gbm.resp, gbm.validMoves, r)]
    /\ UNCHANGED <<appVars, netVars, trail, lastOp, events, sideVars>>

NextGbm == GbmCall

SpecGbm == InitGbm /\ [][NextGbm]_vars


\* ------------------------------------------------ the board being clicked
\* moves are made by clicking squares; no peer is involved
NextClick ==
    \/ \E p \in OneApp, sq \in Squares : HandleSquareClick(p, sq)
    \/ ButtonNext
    \/ AsyncNext

SpecClick == Init /\ [][NextClick]_vars

\* ------------------------------------------------------ an online session
\* host (app 1) and guest (app 2) right after the guest joined, before any move
Host == 1
Guest == 2
TwoApps == {Host, Guest}

InitOnline ==
    /\ game = [p \in TwoApps |-> NewChess]
    /\ fen = [p \in TwoApps |-> InitFen]
    /\ aiThinking = [p \in TwoApps |-> FALSE]
    /\ playerColor = [p \in TwoApps |-> IF p = Host THEN "w" ELSE "b"]
    /\ mode = [p \in TwoApps |-> "ONLINE"]
    /\ peerId = [p \in TwoApps |-> "id"]
    /\ connStatus = [p \in TwoApps |-> "connected"]
    /\ peerRef = [p \in TwoApps |-> TRUE]
    /\ connRef = [p \in TwoApps |-> "open"]
    /\ conns = [p \in TwoApps |-> NoConns]
    /\ aiReq = [p \in TwoApps |-> "none"]
    /\ aiStart = [p \in TwoApps |-> NoStart]
    /\ askReq = [p \in TwoApps |-> "none"]
    /\ cameraZ = [p \in TwoApps |->
                    CameraTargetZ("ONLINE", IF p = Host THEN "w" ELSE "b")]
    /\ role = [p \in TwoApps |-> IF p = Host THEN "host" ELSE "guest"]
    /\ trail = [p \in TwoApps |-> <<>>]
    /\ lastOp = Op(Guest, "connOpen", "", NoMsg)
    /\ wire = [p \in TwoApps |-> <<>>]
    /\ selectedSquare = [p \in TwoApps |-> 0]
    /\ gbm = GbmIdle /\ events = NotCounted

\* the connection delivers the oldest undelivered message
Deliver(p) ==
    /\ wire[p] # <<>>
    /\ ConnData(p, "current", Head(wire[p]))
    /\ wire' = [wire EXCEPT ![p] = Tail(wire[p])]

NextOnline ==
    \E p \in TwoApps :
        \/ \E m \in MoveInputs(game[p]) :
             OnMove(p, m[1], m[2]) /\ UNCHANGED selectedSquare
        \/ ResetGame(p)
        \/ Deliver(p)

SpecOnline == InitOnline /\ [][NextOnline]_vars

\* ================================================================ claims
Last(q) == q[Len(q)]

\* C1: in an ONLINE session the host plays White and the guest plays Black:
\* an app in ONLINE mode with connStatus = connected has playerColor 'w' when
\* the session was made by the 'connection' event and 'b' when it was made
\* by the 'open' event of joinGame.
C1_HostWhiteGuestBlack ==
    \A p \in Apps :
        mode[p] = "ONLINE" /\ connStatus[p] = "connected" =>
            /\ role[p] = "host" => playerColor[p] = "w"
            /\ role[p] = "guest" => playerColor[p] = "b"

\* C2: when a connection is established the game is reset for both peers:
\* right after the host handled 'connection' and right after the guest
\* handled 'open', that app's board is at the initial position.
C2_ResetOnConnect ==
    \A p \in Apps :
        lastOp.app = p /\ lastOp.op \in {"connection", "connOpen"} =>
            fen[p] = InitFen

\* C3: in AI mode, when it is the AI side's turn and the game is not over,
\* and no further user or peer event occurs, a move for the AI side is
\* eventually applied and the turn passes to the human or the game ends.
C3_AiResponds ==
    \A p \in OneApp :
        (Quiet /\ mode[p] = "AI" /\ Turn(game[p]) # playerColor[p]
               /\ ~IsGameOver(game[p]))
        ~> (/\ lastOp = Op(p, "aiReturn", lastOp.res, NoMsg)
            /\ Turn(game[p]) = playerColor[p] \/ IsGameOver(game[p]))

C3_Witness ==
    \E p \in Apps : /\ Quiet /\ mode[p] = "AI" /\ lastOp.op = "aiReturn"
                    /\ Turn(game[p]) = playerColor[p] /\ playerColor[p] = "b"

\* C4: a rejected human move has no effect: onMove(from, to) called while
\* aiThinking is set, while the game is over, or with a from/to pair the
\* chess library does not accept leaves position, mode, playerColor and the
\* connection state unchanged and sends no peer message.
C4_RejectedMoveNoEffect ==
    [][lastOp'.op = "onMove" =>
       \A p \in Apps : \A m \in MoveInputs(game[p]) :
          (/\ lastOp'.app = p
           /\ ~IsLegal(game[p], m[1], m[2]) \/ aiThinking[p] \/ IsGameOver(game[p])
           /\ OnMove(p, m[1], m[2]))
          => /\ fen'[p] = fen[p] /\ game'[p].board = game[p].board
             /\ mode'[p] = mode[p] /\ playerColor'[p] = playerColor[p]
             /\ connStatus'[p] = connStatus[p] /\ connRef'[p] = connRef[p]
             /\ conns'[p] = conns[p]
             /\ lastOp'.sent = NoMsg]_vars

C4_Witness ==
    \E p \in Apps : /\ lastOp = Op(p, "onMove", "rejected", NoMsg)
                    /\ aiThinking[p] /\ ~IsGameOver(game[p])
                    /\ mode[p] = "LOCAL" /\ fen[p] # InitFen

\* C5: getBestMove never rejects: when the model call throws or returns
\* empty text it resolves with an element of a non-empty validMoves; on
\* success it resolves with the first whitespace-delimited token of the
\* trimmed response with the first '.' removed.
NoDot(t) == \A k \in 1..Len(t) : t[k] # "."

DotRemoved(t, res) ==
    IF NoDot(t) THEN res = t
    ELSE \E d \in 1..Len(t) :
            /\ t[d] = "." /\ \A k \in 1..(d - 1) : t[k] # "."
            /\ res = SubSeq(t, 1, d - 1) \o SubSeq(t, d + 1, Len(t))

IsCleanedFirstToken(text, res) ==
    \E i \in 1..Len(text) : \E j \in i..Len(text) :
        /\ \A k \in 1..(i - 1) : text[k] = " "
        /\ \A k \in i..j : text[k] # " "
        /\ j = Len(text) \/ text[j + 1] = " "
        /\ DotRemoved(SubSeq(text, i, j), res)

Blank(text) == \A k \in 1..Len(text) : text[k] = " "

C5_GetBestMove ==
    gbm.pc = "done" =>
        IF gbm.resp.throws \/ Blank(gbm.resp.text)
        THEN gbm.validMoves # <<>> =>
                \E i \in 1..Len(gbm.validMoves) : gbm.result = gbm.validMoves[i]
        ELSE IsCleanedFirstToken(gbm.resp.text, gbm.result)

C5_Witness ==
    /\ gbm.pc = "done" /\ ~gbm.resp.throws
    /\ gbm.resp.text = <<" ", ".", "a">> /\ gbm.result = <<"a">>

C7_EveryTypeActedOn ==
    lastOp.op = "data" => lastOp.res # "none"

\* C8: undo takes moves back: with at least one move made since the last
\* reset, undoMove in LOCAL mode returns the board to the position before
\* the most recent move, in AI mode to the position before the last two
\* moves; in ONLINE mode it changes nothing.
C8_UndoTakesBack ==
    [][lastOp'.op = "undo" =>
       \A p \in Apps :
          (lastOp'.app = p /\ UndoMove(p)) =>
             /\ (mode[p] = "LOCAL" /\ Len(trail[p]) >= 1)
                   => fen'[p] = Last(trail[p])
             /\ (mode[p] = "AI" /\ Len(trail[p]) >= 2)
                   => fen'[p] = trail[p][Len(trail[p]) - 1]
             /\ mode[p] = "ONLINE" => fen'[p] = fen[p]]_vars

\* C9: switching modes resets the board: after switchMode(target) with a
\* target other than the current mode and the confirmation accepted,
\* mode = target, the board is at the initial position, playerColor = 'w'
\* and aiThinking = false; when the mode left is ONLINE the current
\* connection is closed and connStatus = idle.
C9_SwitchModeResets ==
    [][lastOp'.op = "switchMode" =>
       \A p \in Apps : \A target \in Modes :
          (target # mode[p] /\ SwitchMode(p, target, TRUE)) =>
             /\ mode'[p] = target /\ fen'[p] = InitFen
             /\ game'[p] = NewChess
             /\ playerColor'[p] = "w" /\ aiThinking'[p] = FALSE
             /\ mode[p] = "ONLINE" =>
                   /\ connStatus'[p] = "idle"
                   /\ connRef'[p] \notin {"pending", "open"}]_vars

C9_Witness ==
    \E p \in Apps : /\ lastOp = Op(p, "switchMode", "ONLINE", NoMsg)
                    /\ mode[p] = "AI" /\ connStatus[p] = "idle"
                    /\ connRef[p] = "closed"

\* C10: the camera is behind White (z = -15) in AI and LOCAL mode whatever
\* playerColor is, and in ONLINE mode behind White for 'w' and behind Black
\* (z = +15) for 'b': z is +15 exactly when mode = ONLINE and playerColor = 'b'.
C10_Camera ==
    \A p \in Apps :
        /\ cameraZ[p] \in {15, 0 - 15}
        /\ cameraZ[p] = 15 <=> (mode[p] = "ONLINE" /\ playerColor[p] = "b")

C10_Witness ==
    \E p \in Apps : mode[p] = "ONLINE" /\ playerColor[p] = "b" /\ cameraZ[p] = 15

\* C11: when a peer connection closes, the app sets connStatus to idle and
\* playerColor to 'w', stays in its mode with the board position unchanged,
\* sends nothing and starts no connection attempt.
C11_CloseHandler ==
    [][lastOp'.op = "close" =>
       \A p \in Apps : \A c \in ConnIds :
          (lastOp'.app = p /\ ConnClose(p, c)) =>
             /\ connStatus'[p] = "idle" /\ playerColor'[p] = "w"
             /\ mode'[p] = mode[p]
             /\ fen'[p] = fen[p] /\ game'[p] = game[p]
             /\ lastOp'.sent = NoMsg
             /\ conns'[p].pending <= conns[p].pending
             /\ connRef'[p] # "pending" \/ connRef[p] = "pending"
             /\ Live(p)' = Live(p) - 1]_vars

C11_Witness ==
    \E p \in Apps : /\ lastOp = Op(p, "close", "", NoMsg)
                    /\ mode[p] = "ONLINE" /\ fen[p] # InitFen
                    /\ connRef[p] = "closed" /\ connStatus[p] = "idle"

\* C12: aiThinking never gets stuck: aiThinking is true only while an AI
\* request (the automatic AI move or an Ask-AI request) is outstanding; once
\* every request has completed or been abandoned aiThinking is false.
C12_ThinkingOnlyWhileRequest ==
    \A p \in Apps :
        aiThinking[p] => (aiReq[p] # "none" \/ askReq[p] = "live")

\* C14: each automatic AI turn that completes advances the position by exactly
\* one move that is legal in the position it is applied to, made for the side
\* opposite to playerColor; a position with legal moves is never left
\* unchanged by a completed AI turn.
C14_AiTurnOneLegalMove ==
    [][lastOp'.op = "aiReturn" =>
       \A p \in Apps : lastOp'.app = p =>
          /\ Turn(game[p]) = Other(playerColor[p])
          /\ fen'[p] # fen[p]
          /\ \E i \in 1..Len(LegalMoves(game[p])) :
                /\ game'[p].board = ApplyMove(game[p], LegalMoves(game[p])[i].from,
                                              LegalMoves(game[p])[i].to).board
                /\ Turn(game'[p]) = Other(Turn(game[p]))]_vars

C14_Witness ==
    \E p \in Apps : /\ lastOp = Op(p, "aiReturn", "fallback", NoMsg)
                    /\ mode[p] = "AI" /\ Turn(game[p]) = playerColor[p]

\* C16: each accepted local move in ONLINE mode with a connection object
\* present sends exactly one MOVE message whose from and to are the squares
\* of the move applied to the local board; onMove in AI or LOCAL mode sends
\* no message.
C16_MoveSentOnce ==
    [][lastOp'.op = "onMove" =>
       \A p \in Apps : \A m \in MoveInputs(game[p]) :
          (lastOp'.app = p /\ OnMove(p, m[1], m[2])) =>
             /\ (mode[p] = "ONLINE" /\ connRef[p] # "null" /\ fen'[p] # fen[p])
                   => /\ lastOp'.sent = <<MoveMsg(m[1], m[2])>>
                      /\ game'[p].board = ApplyMove(game[p], m[1], m[2]).board
             /\ mode[p] \in {"AI", "LOCAL"} => lastOp'.sent = NoMsg
             /\ fen'[p] = fen[p] => lastOp'.sent = NoMsg]_vars

C16_Witness ==
    \E p \in Apps : /\ lastOp.op = "onMove" /\ lastOp.res = "accepted"
                    /\ lastOp.sent # NoMsg /\ mode[p] = "ONLINE"
                    /\ playerColor[p] = "b"

\* C17: on receiving MOVE {from, to} a peer applies that move to its own board
\* when the chess library accepts it in the receiver's current position; when
\* the library rejects it the receiver's board position is unchanged.
C17_ReceiveMove ==
    [][lastOp'.op = "data" =>
       \A p \in Apps : \A c \in ConnIds : \A msg \in MessageInputs(game[p]) :
          (lastOp'.app = p /\ msg.type = "MOVE" /\ ConnData(p, c, msg)) =>
             IF IsLegal(game[p], msg.from, msg.to)
             THEN /\ game'[p].board = ApplyMove(game[p], msg.from, msg.to).board
                  /\ Turn(game'[p]) = Other(Turn(game[p]))
             ELSE fen'[p] = fen[p] /\ game'[p].board = game[p].board]_vars

C17_Witness ==
    \E p \in Apps : /\ lastOp = Op(p, "data", "MOVE", NoMsg)
                    /\ mode[p] = "ONLINE" /\ playerColor[p] = "b"
                    /\ Len(trail[p]) = 1 /\ Turn(game[p]) = "b"

\* C18: a restart is relayed once and never echoed: resetGame() called by the
\* user in ONLINE mode with a connection sends exactly one RESET; a peer that
\* receives RESET sets its board to the initial position and sends nothing;
\* the host's reset on an incoming connection sends no RESET.
C18_ResetRelayedOnce ==
    [][\A p \in Apps :
          /\ (lastOp'.op = "reset" /\ lastOp'.app = p /\ ResetGame(p)) =>
                /\ fen'[p] = InitFen
                /\ lastOp'.sent = IF mode[p] = "ONLINE" /\ connRef[p] # "null"
                                  THEN <<ResetMsg>> ELSE NoMsg
          /\ (lastOp'.op = "data" /\ lastOp'.app = p
                 /\ \E c \in ConnIds : ConnData(p, c, ResetMsg)) =>
                /\ fen'[p] = InitFen /\ game'[p] = NewChess
                /\ lastOp'.sent = NoMsg
          /\ (lastOp'.op = "connection" /\ lastOp'.app = p /\ PeerConnection(p)) =>
                /\ fen'[p] = InitFen
                /\ lastOp'.sent = NoMsg]_vars

C18_Witness ==
    \E p \in Apps : /\ lastOp = Op(p, "reset", "user", <<ResetMsg>>)
                    /\ mode[p] = "ONLINE" /\ connStatus[p] = "connected"

\* C13: a stale AI answer is never applied: the answer of an automatic AI
\* request changes the board only if fen, mode and playerColor still have the
\* values they had when the request was started; a request whose values
\* changed is abandoned.
C13_StaleAnswerDiscarded ==
    [][/\ lastOp'.op = "aiReturn" =>
            \A p \in Apps : lastOp'.app = p =>
                aiStart[p] = <<fen[p], mode[p], playerColor[p]>>
       /\ \A p \in Apps :
            (aiReq'[p] # "none" /\ aiStart'[p] = aiStart[p] /\ aiReq[p] # "none")
               => <<fen'[p], mode'[p], playerColor'[p]>>
                     = <<fen[p], mode[p], playerColor[p]>>]_vars

C13_Witness ==
    \E p \in Apps : /\ lastOp = Op(p, "aiReturn", "model", NoMsg)
                    /\ playerColor[p] = "b" /\ fen[p] # InitFen
                    /\ connStatus[p] = "connected"

\* C15: boards converge in an online session: whenever host and guest are
\* connected and no message is in flight between them, both hold the same
\* board position.
C15_BoardsConverge ==
    (/\ \A p \in Apps : mode[p] = "ONLINE" /\ connStatus[p] = "connected"
     /\ \A p \in Apps : wire[p] = <<>>)
    => \A p \in Apps, q \in Apps : fen[p] = fen[q]

\* C19: the board issues a move only from the selected piece to one of its
\* legal destinations: handleSquareClick calls onMove(from, to) only when from
\* is the selected square and to is the destination of a legal move from it;
\* every such call, and a click on the selected square, clears the selection;
\* a click on any other square selects it exactly when it holds a piece of the
\* side to move.
C19_ClickIssuesLegalMove ==
    [][lastOp'.op \in {"click", "onMove"} =>
       \A p \in Apps : \A sq \in Squares :
          (lastOp'.app = p /\ HandleSquareClick(p, sq)) =>
             /\ lastOp'.op = "onMove" =>
                   /\ selectedSquare[p] # 0
                   /\ IsLegal(game[p], selectedSquare[p], sq)
                   /\ OnMove(p, selectedSquare[p], sq)
                   /\ selectedSquare'[p] = 0
             /\ sq = selectedSquare[p] =>
                   lastOp'.op = "click" /\ selectedSquare'[p] = 0
             /\ (lastOp'.op = "click" /\ sq # selectedSquare[p]) =>
                   selectedSquare'[p] =
                      IF Get(game[p], sq) = Turn(game[p]) THEN sq ELSE 0]_vars

C19_Witness ==
    \E p \in Apps : /\ lastOp.op = "onMove" /\ lastOp.res = "accepted"
                    /\ selectedSquare[p] = 0 /\ mode[p] = "AI"
                    /\ aiThinking[p]

====
